---- MODULE Spec2Model ----
(***************************************************************************)
(* SOAP-note generation pipeline and transcript ingestion of the EHR       *)
(* chatbot: the route handler POST /api/soap-note, generateSoapNoteContent,*)
(* the server actions addTranscriptAction and updateClientAction, and the  *)
(* query functions they use, the document store among them.                *)
(* Text is a sequence of one-character strings; an error message is a      *)
(* sequence of string tokens, so that String.includes is token membership. *)
(***************************************************************************)
EXTENDS Integers, Sequences, FiniteSets, TLC

\* ------------------------------------------------------------------ bounds
MaxFragments == 2     \* fragments one upstream stream may emit
MaxTime == 2          \* session timestamps 1..MaxTime offered to ingestion
MaxClock == 1         \* wall clock values 0..MaxClock seen by saveDocument
MaxCtxTime == 4       \* session timestamps of the context-assembly runs
MaxTruncTime == 3     \* session timestamps of the runs with long transcripts
MaxDocTime == 2       \* wall clock values 0..MaxDocTime of the document-store runs
MaxSaves == 3         \* saveDocument calls of one document-store run
MaxClicks == 2        \* clicks on the button in one run of the component

\* ------------------------------------------------------- program constants
MAX_PROMPT_TRANSCRIPT_CHARS == 8000
RECENT_TRANSCRIPTS == 3
maxDuration == 90     \* export const maxDuration, in seconds

TRUNCATION_MARKER == <<"\n", "\n", ".", ".", ".", " ", "[", "C", "o", "n", "t", "e", "n", "t", " ", "T", "r", "u", "n", "c", "a", "t", "e", "d", " ", "d", "u", "e", " ", "t", "o", " ", "l", "e", "n", "g", "t", "h", "]">>

NO_TRANSCRIPTS_PLACEHOLDER == <<"N", "o", " ", "r", "e", "c", "e", "n", "t", " ", "t", "r", "a", "n", "s", "c", "r", "i", "p", "t", "s", " ", "a", "v", "a", "i", "l", "a", "b", "l", "e", " ", "o", "r", " ", "c", "o", "n", "t", "e", "n", "t", " ", "w", "a", "s", " ", "e", "m", "p", "t", "y", ".">>

UNIQUE_INDEX == "transcript_client_session_unique_idx"

\* ------------------------------------------------------------------- text
None == "none"

Whitespace == {" ", "\n", "\t"}

Digit(d) == <<"0", "1", "2", "3", "4", "5", "6", "7", "8", "9">>[d + 1]

RECURSIVE Decimal(_)
\* String(n) of a non-negative integer, as the template literal prints it.
Decimal(n) == IF n < 10 THEN <<Digit(n)>> ELSE Decimal(n \div 10) \o <<Digit(n % 10)>>

RECURSIVE TrimStart(_)
TrimStart(s) ==
  IF s # <<>> /\ Head(s) \in Whitespace THEN TrimStart(Tail(s)) ELSE s

RECURSIVE TrimEnd(_)
TrimEnd(s) ==
  IF s # <<>> /\ s[Len(s)] \in Whitespace THEN TrimEnd(SubSeq(s, 1, Len(s) - 1)) ELSE s

\* String.prototype.trim
Trim(s) == TrimEnd(TrimStart(s))

\* String.prototype.slice(0, n)
Slice0(s, n) == SubSeq(s, 1, IF n < Len(s) THEN n ELSE Len(s))

RECURSIVE Join(_, _)
\* Array.prototype.join
Join(parts, sep) ==
  IF parts = <<>> THEN <<>>
  ELSE IF Len(parts) = 1 THEN parts[1]
  ELSE parts[1] \o sep \o Join(Tail(parts), sep)

\* String.prototype.includes on a message
Includes(msg, token) == \E i \in 1..Len(msg) : msg[i] = token

\* new Date(t).toLocaleString(): the display form of a session timestamp
ToLocaleString(t) == Decimal(t)

\* --------------------------------------------------------------- the data
Users == {"u1", "u2"}

\* Well-formed (UUID) client ids: c1 and c2 have a row, c3 has none.
UuidIds == {"c1", "c2", "c3"}
MalformedId == "not-a-uuid"

\* z.string().uuid(), and the uuid column type of client.id
IsUuid(id) == id \in UuidIds

NoClient == [id |-> None, userId |-> None, name |-> None, createdAt |-> 0, updatedAt |-> 0]

\* One character per position, so that a prefix is told from any other cut.
LongText == [i \in 1..(MAX_PROMPT_TRANSCRIPT_CHARS + 1) |-> Digit(i % 10)]
Content(n) == SubSeq(LongText, 1, n)

VARIABLES
  clients,      \* table client: sequence of rows [id, userId, name]
  transcripts,  \* table transcript, in insertion order
  documents,    \* table Document: the snapshots, in insertion order
  revalidated,  \* paths handed to revalidatePath
  nextDocId,    \* the ids generateUUID has handed out
  clock,        \* the wall clock read by new Date()
  docLog,       \* the calls made to the document store, and the last of them
  req,          \* per request: its inputs, position, locals and response
  button        \* GenerateSoapNoteButton: its state, its handler runs, the artifact

vars == <<clients, transcripts, documents, revalidated, nextDocId, clock, docLog, req, button>>

Procs == {1, 2}

\* The document ids in use: generateUUID hands out one per request.
DocIds == 1..Cardinality(Procs)

\* The log of the document store before any call.
NoLog ==
  [calls |-> [id \in DocIds |-> 0], saved |-> [id \in DocIds |-> 0], deleted |-> FALSE,
   last |-> [op |-> "none", id |-> 0, at |-> 0, ok |-> FALSE, removed |-> 0]]

RECURSIVE SumCalls(_, _)
\* The number of saveDocument calls made for the ids.
SumCalls(calls, ids) ==
  IF ids = {} THEN 0
  ELSE LET i == CHOOSE i \in ids : TRUE IN calls[i] + SumCalls(calls, ids \ {i})

\* A saveDocument call for id at time now, and whether it inserted.
LogSave(log, id, now, ok) ==
  [log EXCEPT !.calls[id] = @ + 1,
              !.saved[id] = IF ok THEN @ + 1 ELSE @,
              !.last = [op |-> "save", id |-> id, at |-> now, ok |-> ok, removed |-> 0]]

\* A deleteDocumentsByIdAfterTimestamp call that removed so many snapshots.
LogDelete(log, id, timestamp, removed) ==
  [log EXCEPT !.deleted = TRUE,
              !.last = [op |-> "delete", id |-> id, at |-> timestamp, ok |-> TRUE,
                        removed |-> removed]]

\* ------------------------------------------------------------ lib/db/queries
FirstOrUndefined(rows, undef) == IF rows = <<>> THEN undef ELSE rows[1]

getClientById_anyOwner(cl, id, userId) ==
  IF ~IsUuid(id)
    THEN [ok |-> FALSE, client |-> NoClient, error |-> <<"Database error retrieving client.">>]
    ELSE LET Match(c) == c.id = id
         IN [ok |-> TRUE, client |-> FirstOrUndefined(SelectSeq(cl, Match), NoClient), error |-> <<>>]

\* where(and(eq(client.id, id), eq(client.userId, userId))); a value that is no
\* uuid is rejected by the uuid column, and the catch rethrows a generic error.
getClientById(cl, id, userId) ==
  IF ~IsUuid(id)
    THEN [ok |-> FALSE, client |-> NoClient, error |-> <<"Database error retrieving client.">>]
    ELSE LET Match(c) == c.id = id /\ c.userId = userId
         IN [ok |-> TRUE, client |-> FirstOrUndefined(SelectSeq(cl, Match), NoClient), error |-> <<>>]

RECURSIVE InsertDesc(_, _)
InsertDesc(sorted, t) ==
  IF sorted = <<>> THEN <<t>>
  ELSE IF t.sessionDateTime > sorted[1].sessionDateTime THEN <<t>> \o sorted
  ELSE <<sorted[1]>> \o InsertDesc(Tail(sorted), t)

RECURSIVE OrderByDesc(_)
\* orderBy(desc(transcript.sessionDateTime))
OrderByDesc(rows) ==
  IF rows = <<>> THEN <<>> ELSE InsertDesc(OrderByDesc(Tail(rows)), rows[1])

getTranscriptsByClientId_unordered(tr, clientId) ==
  LET Match(t) == t.clientId = clientId IN SelectSeq(tr, Match)

getTranscriptsByClientId(tr, clientId) ==
  LET Match(t) == t.clientId = clientId IN OrderByDesc(SelectSeq(tr, Match))

UniqueViolation(tr, data) ==
  \E i \in 1..Len(tr) :
    tr[i].clientId = data.clientId /\ tr[i].sessionDateTime = data.sessionDateTime

InsertTranscript_noIndex(tr, data, fault) ==
  IF fault
    THEN [ok |-> FALSE, rows |-> tr, error |-> <<"connection terminated unexpectedly">>]
    ELSE [ok |-> TRUE, error |-> <<>>,
          rows |-> Append(tr, [id |-> Len(tr) + 1, clientId |-> data.clientId,
                               sessionDateTime |-> data.sessionDateTime,
                               content |-> data.content])]

\* db.insert(transcript).values(...) under the unique index on
\* (client_id, session_datetime); fault is a storage failure of any other kind.
InsertTranscript(tr, data, fault) ==
  IF fault
    THEN [ok |-> FALSE, rows |-> tr, error |-> <<"connection terminated unexpectedly">>]
  ELSE IF UniqueViolation(tr, data)
    THEN [ok |-> FALSE, rows |-> tr,
          error |-> <<"duplicate key value violates unique constraint", UNIQUE_INDEX>>]
    ELSE [ok |-> TRUE, error |-> <<>>,
          rows |-> Append(tr, [id |-> Len(tr) + 1, clientId |-> data.clientId,
                               sessionDateTime |-> data.sessionDateTime,
                               content |-> data.content])]

addTranscript_swallow(tr, data, fault) ==
  LET r == InsertTranscript(tr, data, fault)
  IN IF r.ok THEN r ELSE [r EXCEPT !.ok = TRUE, !.error = <<>>]

\* try { insert } catch { throw new Error('Database error adding transcript.') }
addTranscript(tr, data, fault) ==
  LET r == InsertTranscript(tr, data, fault)
  IN IF r.ok THEN r ELSE [r EXCEPT !.error = <<"Database error adding transcript.">>]

\* The key of table Document: a snapshot is identified by its document id and
\* its creation time.
DOCUMENT_KEY == "Document_id_createdAt_pk"

DocumentKeyViolation(docs, id, createdAt) ==
  \E i \in 1..Len(docs) : docs[i].id = id /\ docs[i].createdAt = createdAt

generateUUID_constant(handedOut) == 1

\* generateUUID(): a random UUID, one that no earlier call has returned; ids are
\* numbered in the order they are handed out.
generateUUID(handedOut) == handedOut + 1

saveDocument_overwrite(docs, doc, now, fault) ==
  LET Others(d) == d.title # doc.title
  IN IF fault
       THEN [ok |-> FALSE, rows |-> docs, error |-> <<"connection terminated unexpectedly">>]
       ELSE [ok |-> TRUE, error |-> <<>>,
             rows |-> Append(SelectSeq(docs, Others),
                             [id |-> doc.id, title |-> doc.title, kind |-> doc.kind,
                              content |-> doc.content, userId |-> doc.userId,
                              createdAt |-> now])]

saveDocument_swallow(docs, doc, now, fault) ==
  IF fault \/ DocumentKeyViolation(docs, doc.id, now)
    THEN [ok |-> TRUE, rows |-> docs, error |-> <<>>]
    ELSE [ok |-> TRUE, error |-> <<>>,
          rows |-> Append(docs, [id |-> doc.id, title |-> doc.title, kind |-> doc.kind,
                                 content |-> doc.content, userId |-> doc.userId,
                                 createdAt |-> now])]

saveDocument_ownerless(docs, doc, now, fault) ==
  IF fault
    THEN [ok |-> FALSE, rows |-> docs, error |-> <<"connection terminated unexpectedly">>]
  ELSE IF DocumentKeyViolation(docs, doc.id, now)
    THEN [ok |-> FALSE, rows |-> docs,
          error |-> <<"duplicate key value violates unique constraint", DOCUMENT_KEY>>]
    ELSE [ok |-> TRUE, error |-> <<>>,
          rows |-> Append(docs, [id |-> doc.id, title |-> doc.title, kind |-> doc.kind,
                                 content |-> doc.content, userId |-> None,
                                 createdAt |-> now])]

\* db.insert(document).values({..., createdAt: new Date()}); the catch rethrows
\* the storage error as it is.
saveDocument(docs, doc, now, fault) ==
  IF fault
    THEN [ok |-> FALSE, rows |-> docs, error |-> <<"connection terminated unexpectedly">>]
  ELSE IF DocumentKeyViolation(docs, doc.id, now)
    THEN [ok |-> FALSE, rows |-> docs,
          error |-> <<"duplicate key value violates unique constraint", DOCUMENT_KEY>>]
    ELSE [ok |-> TRUE, error |-> <<>>,
          rows |-> Append(docs, [id |-> doc.id, title |-> doc.title, kind |-> doc.kind,
                                 content |-> doc.content, userId |-> doc.userId,
                                 createdAt |-> now])]

NoDocument == [id |-> 0, title |-> <<>>, kind |-> None, content |-> <<>>,
               userId |-> None, createdAt |-> 0]

RECURSIVE InsertAscCreatedAt(_, _)
InsertAscCreatedAt(sorted, d) ==
  IF sorted = <<>> THEN <<d>>
  ELSE IF d.createdAt < sorted[1].createdAt THEN <<d>> \o sorted
  ELSE <<sorted[1]>> \o InsertAscCreatedAt(Tail(sorted), d)

RECURSIVE OrderByAscCreatedAt(_)
\* orderBy(asc(document.createdAt))
OrderByAscCreatedAt(rows) ==
  IF rows = <<>> THEN <<>>
  ELSE InsertAscCreatedAt(OrderByAscCreatedAt(Tail(rows)), rows[1])

RECURSIVE InsertDescCreatedAt(_, _)
InsertDescCreatedAt(sorted, d) ==
  IF sorted = <<>> THEN <<d>>
  ELSE IF d.createdAt > sorted[1].createdAt THEN <<d>> \o sorted
  ELSE <<sorted[1]>> \o InsertDescCreatedAt(Tail(sorted), d)

RECURSIVE OrderByDescCreatedAt(_)
\* orderBy(desc(document.createdAt))
OrderByDescCreatedAt(rows) ==
  IF rows = <<>> THEN <<>>
  ELSE InsertDescCreatedAt(OrderByDescCreatedAt(Tail(rows)), rows[1])

\* select().from(document).where(eq(document.id, id)).orderBy(asc(createdAt))
getDocumentsById(docs, id) ==
  LET Match(d) == d.id = id IN OrderByAscCreatedAt(SelectSeq(docs, Match))

getDocumentById_oldest(docs, id) ==
  LET Match(d) == d.id = id
  IN FirstOrUndefined(OrderByAscCreatedAt(SelectSeq(docs, Match)), NoDocument)

\* const [selectedDocument] = await db.select()...orderBy(desc(createdAt))
getDocumentById(docs, id) ==
  LET Match(d) == d.id = id
  IN FirstOrUndefined(OrderByDescCreatedAt(SelectSeq(docs, Match)), NoDocument)

deleteDocumentsByIdAfterTimestamp_all(docs, id, timestamp) ==
  LET Keep(d) == ~(d.id = id) IN SelectSeq(docs, Keep)

\* delete(document).where(and(eq(document.id, id), gt(document.createdAt,
\* timestamp))); the suggestions deleted with them are not part of the model.
deleteDocumentsByIdAfterTimestamp(docs, id, timestamp) ==
  LET Keep(d) == ~(d.id = id /\ d.createdAt > timestamp) IN SelectSeq(docs, Keep)

\* -------------------------------------------------- artifacts/soap/generation
HeaderOpen == <<"\n", "-", "-", "-", " ", "T", "r", "a", "n", "s", "c", "r", "i", "p", "t", " ">>
HeaderMid == <<" ", "(">>
HeaderClose == <<")", " ", "-", "-", "-", "\n">>
FooterOpen == <<"\n", "-", "-", "-", " ", "E", "n", "d", " ", "T", "r", "a", "n", "s", "c", "r", "i", "p", "t", " ">>
FooterClose == <<" ", "-", "-", "-", "\n", " ", " ">>
JoinSep == <<"\n", "\n">>

\* transcripts.slice(0, 3)
RecentTranscripts(sorted) ==
  SubSeq(sorted, 1, IF Len(sorted) < RECENT_TRANSCRIPTS THEN Len(sorted) ELSE RECENT_TRANSCRIPTS)

\* the template of one transcript, index counted from 0 as in Array.map
RenderTranscript(t, index) ==
  HeaderOpen \o Decimal(index + 1) \o HeaderMid \o ToLocaleString(t.sessionDateTime)
    \o HeaderClose \o t.content \o FooterOpen \o Decimal(index + 1) \o FooterClose

\* recentTranscripts.map(...).join("\n\n").trim()
CombinedTranscriptContent(recent) ==
  Trim(Join([i \in 1..Len(recent) |-> RenderTranscript(recent[i], i - 1)], JoinSep))

Truncate_silent(combined) ==
  IF Len(combined) > MAX_PROMPT_TRANSCRIPT_CHARS
    THEN Slice0(combined, MAX_PROMPT_TRANSCRIPT_CHARS)
    ELSE combined

\* if (combined.length > MAX) combined = combined.slice(0, MAX) + marker
Truncate(combined) ==
  IF Len(combined) > MAX_PROMPT_TRANSCRIPT_CHARS
    THEN Slice0(combined, MAX_PROMPT_TRANSCRIPT_CHARS) \o TRUNCATION_MARKER
    ELSE combined

OrPlaceholder_blank(combined) == combined

\* if (!combined) combined = "No recent transcripts available or content was empty."
OrPlaceholder(combined) ==
  IF combined = <<>> THEN NO_TRANSCRIPTS_PLACEHOLDER ELSE combined

\* the text placed under SESSION TRANSCRIPTS: in the system prompt
TranscriptSection(recent) == OrPlaceholder(Truncate(CombinedTranscriptContent(recent)))

\* const systemPrompt = `...`.trim(): the fixed instructions, the client
\* demographics (of which the model keeps the name) and the transcript section
SystemPrompt(clientName, section) ==
  <<"You are a licensed mental-health clinician ...", "CLIENT DEMOGRAPHICS:",
    "Client Name: ", clientName, "SESSION TRANSCRIPTS:">>
    \o section \o <<"Generate the SOAP progress note now.">>

\* prompt: `Generate a SOAP note for the client ${client.name} based on ...`
UserPrompt(clientName) ==
  <<"Generate a SOAP note for the client ", clientName,
    " based on the provided context.">>

IsEmptyOutput_never(accumulatedText) == FALSE

\* if (!accumulatedText) throw
IsEmptyOutput(accumulatedText) == accumulatedText = <<>>

\* return { fullText: accumulatedText.trim(), ... }
FullText(accumulatedText) == Trim(accumulatedText)

\* ----------------------------------------------------------- request state
NoHttp == [status |-> 0, error |-> <<>>, documentId |-> 0, title |-> <<>>,
           initialContent |-> <<>>]

\* NextResponse.json({ error }, { status })
HttpError(status, error) == [NoHttp EXCEPT !.status = status, !.error = error]

\* NextResponse.json({ documentId, title, initialContent })
HttpOk(documentId, title, content) ==
  [status |-> 200, error |-> <<>>, documentId |-> documentId, title |-> title,
   initialContent |-> content]

NoForm == [message |-> None, success |-> FALSE, errors |-> {}]

FormState(message, success, errors) ==
  [message |-> message, success |-> success, errors |-> errors]

Idle ==
  [kind |-> "idle", pc |-> "idle", userId |-> None,
   clientId |-> [type |-> "undefined", val |-> ""],
   sessionDateTime |-> [valid |-> FALSE, time |-> 0], content |-> <<>>,
   clientName |-> None, recent |-> <<>>, section |-> <<>>,
   calls |-> 0, accumulatedText |-> <<>>, stream |-> "none", fullText |-> <<>>,
   steps |-> <<>>, elapsed |-> 0, argUserId |-> None, name |-> None,
   emitted |-> <<>>, readAt |-> 0, system |-> <<>>, prompt |-> <<>>,
   formUserId |-> None, updates |-> [name |-> None],
   wrote |-> {}, inserted |-> 0, dbError |-> "none", rowsAtCheck |-> 0,
   http |-> NoHttp, form |-> NoForm]

\* The session of a request: an authenticated user, or none.
Sessions == Users \cup {None}

\* The clientId of a request body: absent, a number, or a string; or the body
\* is no JSON object at all and req.json() or the destructuring throws.
BodyClientIds ==
  {[type |-> "undefined", val |-> ""], [type |-> "number", val |-> "42"],
   [type |-> "unparsed", val |-> ""]}
    \cup {[type |-> "string", val |-> v] : v \in UuidIds \cup {MalformedId, ""}}

InvalidBodyClientId_missingOnly(c) == c.type = "undefined" \/ c.val = ""

\* !clientId || typeof clientId !== "string"
InvalidBodyClientId(c) == c.type # "string" \/ c.val = ""

\* The fragments the upstream stream may emit.
Fragments == {<<"a">>, <<" ">>}

Finish(r, http) == [r EXCEPT !.pc = "done", !.http = http]

\* The request begins the named steps of the pipeline, in this order.
Step(r, names) == [r EXCEPT !.steps = @ \o names]

\* --------------------------------------------- app/api/soap-note/route.ts
\* auth(), req.json() and the two early returns; a body that does not parse
\* throws into the catch of POST.
POSTStart(p, user, body) ==
  /\ req[p].kind = "idle"
  /\ LET r == [req[p] EXCEPT !.kind = "gen", !.userId = user, !.clientId = body]
     IN req' = [req EXCEPT ![p] =
          IF user = None THEN Finish(r, HttpError(401, <<"Unauthorized">>))
          ELSE IF body.type = "unparsed"
            THEN Finish(r, HttpError(500, <<"Unexpected end of JSON input">>))
          ELSE IF InvalidBodyClientId(body)
            THEN Finish(r, HttpError(400, <<"Missing or invalid clientId">>))
          ELSE [r EXCEPT !.pc = "verify"]]
  /\ UNCHANGED <<clients, transcripts, documents, revalidated, nextDocId, clock, docLog, button>>

\* const clientCheck = await getClientById(clientId, userId); a throw reaches
\* the catch of POST, which answers 500 with the message of the error.
POSTVerifyOwnership(p) ==
  /\ req[p].kind = "gen" /\ req[p].pc = "verify"
  /\ LET r == Step(req[p], <<"ownership">>)
         got == getClientById(clients, r.clientId.val, r.userId)
     IN req' = [req EXCEPT ![p] =
          IF ~got.ok THEN Finish(r, HttpError(500, got.error))
          ELSE IF got.client = NoClient
            THEN Finish(r, HttpError(404, <<"Client not found or access denied.">>))
          ELSE [r EXCEPT !.pc = "fetchClient"]]
  /\ UNCHANGED <<clients, transcripts, documents, revalidated, nextDocId, clock, docLog, button>>

\* generateSoapNoteContent, step 1: the client is fetched again.
GenFetchClient(p) ==
  /\ req[p].kind = "gen" /\ req[p].pc = "fetchClient"
  /\ LET r == Step(req[p], <<"client">>)
         got == getClientById(clients, r.clientId.val, r.userId)
     IN req' = [req EXCEPT ![p] =
          IF ~got.ok THEN Finish(r, HttpError(500, got.error))
          ELSE IF got.client = NoClient
            THEN Finish(r, HttpError(500,
                   <<"Client not found or access denied for ID: ", r.clientId.val>>))
          ELSE [r EXCEPT !.pc = "fetchTranscripts", !.clientName = got.client.name]]
  /\ UNCHANGED <<clients, transcripts, documents, revalidated, nextDocId, clock, docLog, button>>

GenFetchTranscripts_perProcess(p) ==
  /\ req[p].kind = "gen" /\ req[p].pc = "fetchTranscripts"
  /\ LET r == Step(req[p], <<"transcripts", "prompt">>)
         recent == RecentTranscripts(getTranscriptsByClientId(transcripts, r.clientId.val))
         section == TranscriptSection(recent) \o Decimal(p)
     IN req' = [req EXCEPT ![p] =
          [r EXCEPT !.pc = "callLLM", !.recent = recent, !.readAt = Len(transcripts),
                    !.section = section,
                    !.system = SystemPrompt(r.clientName, section)]]
  /\ UNCHANGED <<clients, transcripts, documents, revalidated, nextDocId, clock, docLog, button>>

\* generateSoapNoteContent, steps 1-3: the transcripts are read, the three most
\* recent kept, and the transcript section and the system prompt built. readAt
\* records how many rows the table had when it was read.
GenFetchTranscripts(p) ==
  /\ req[p].kind = "gen" /\ req[p].pc = "fetchTranscripts"
  /\ LET r == Step(req[p], <<"transcripts", "prompt">>)
         recent == RecentTranscripts(getTranscriptsByClientId(transcripts, r.clientId.val))
         section == TranscriptSection(recent)
     IN req' = [req EXCEPT ![p] =
          [r EXCEPT !.pc = "callLLM", !.recent = recent, !.readAt = Len(transcripts),
                    !.section = section,
                    !.system = SystemPrompt(r.clientName, section)]]
  /\ UNCHANGED <<clients, transcripts, documents, revalidated, nextDocId, clock, docLog, button>>

\* generateSoapNoteContent, step 4: await streamText({...})
GenCallLLM(p) ==
  /\ req[p].kind = "gen" /\ req[p].pc = "callLLM"
  /\ req' = [req EXCEPT ![p] =
       [Step(req[p], <<"generation">>) EXCEPT
          !.pc = "stream", !.calls = @ + 1, !.accumulatedText = <<>>, !.stream = "open",
          !.prompt = UserPrompt(req[p].clientName)]]
  /\ UNCHANGED <<clients, transcripts, documents, revalidated, nextDocId, clock, docLog, button>>

GenStreamDelta_prepend(p, delta) ==
  /\ req[p].kind = "gen" /\ req[p].pc = "stream"
  /\ Len(req[p].accumulatedText) < MaxFragments
  /\ req' = [req EXCEPT ![p] = [@ EXCEPT !.accumulatedText = delta \o @,
                                         !.emitted = Append(@, delta)]]
  /\ UNCHANGED <<clients, transcripts, documents, revalidated, nextDocId, clock, docLog, button>>

\* for await (const delta of textStream) accumulatedText += delta; emitted
\* records the fragments as the stream delivered them.
GenStreamDelta(p, delta) ==
  /\ req[p].kind = "gen" /\ req[p].pc = "stream"
  /\ Len(req[p].accumulatedText) < MaxFragments
  /\ req' = [req EXCEPT ![p] = [@ EXCEPT !.accumulatedText = @ \o delta,
                                         !.emitted = Append(@, delta)]]
  /\ UNCHANGED <<clients, transcripts, documents, revalidated, nextDocId, clock, docLog, button>>

\* The stream stays silent until the request has run longer than maxDuration;
\* streamText is given no abort signal and the loop reads no clock, so the
\* handler goes on waiting.
GenStreamWait(p) ==
  /\ req[p].kind = "gen" /\ req[p].pc = "stream"
  /\ req[p].elapsed <= maxDuration
  /\ req' = [req EXCEPT ![p] = [@ EXCEPT !.elapsed = maxDuration + 1]]
  /\ UNCHANGED <<clients, transcripts, documents, revalidated, nextDocId, clock, docLog, button>>

GenStreamError_keepPartial(p) ==
  /\ req[p].kind = "gen" /\ req[p].pc = "stream"
  /\ req' = [req EXCEPT ![p] =
       [@ EXCEPT !.stream = "error", !.pc = "save",
                 !.fullText = FullText(req[p].accumulatedText)]]
  /\ UNCHANGED <<clients, transcripts, documents, revalidated, nextDocId, clock, docLog, button>>

\* The stream signals an error: the for await throws out of
\* generateSoapNoteContent into the catch of POST.
GenStreamError(p) ==
  /\ req[p].kind = "gen" /\ req[p].pc = "stream"
  /\ req' = [req EXCEPT ![p] =
       Finish([@ EXCEPT !.stream = "error"], HttpError(500, <<"upstream error">>))]
  /\ UNCHANGED <<clients, transcripts, documents, revalidated, nextDocId, clock, docLog, button>>

GenStreamEnd_retry(p) ==
  /\ req[p].kind = "gen" /\ req[p].pc = "stream"
  /\ LET r == [req[p] EXCEPT !.stream = "end"]
     IN req' = [req EXCEPT ![p] =
          IF IsEmptyOutput(r.accumulatedText)
            THEN IF r.calls < 2 THEN [r EXCEPT !.pc = "callLLM"]
                 ELSE Finish(r, HttpError(500, <<"LLM failed to generate SOAP note content.">>))
            ELSE [r EXCEPT !.pc = "save", !.fullText = FullText(r.accumulatedText)]]
  /\ UNCHANGED <<clients, transcripts, documents, revalidated, nextDocId, clock, docLog, button>>

\* The stream is exhausted: the empty check, then the trimmed text is returned.
GenStreamEnd(p) ==
  /\ req[p].kind = "gen" /\ req[p].pc = "stream"
  /\ LET r == [req[p] EXCEPT !.stream = "end"]
     IN req' = [req EXCEPT ![p] =
          IF IsEmptyOutput(r.accumulatedText)
            THEN Finish(r, HttpError(500, <<"LLM failed to generate SOAP note content.">>))
            ELSE [r EXCEPT !.pc = "save", !.fullText = FullText(r.accumulatedText)]]
  /\ UNCHANGED <<clients, transcripts, documents, revalidated, nextDocId, clock, docLog, button>>

\* generateUUID(), saveDocument({...}) and the success response; a storage
\* failure reaches the catch of POST. now is the value new Date() returns.
POSTSave(p, now, fault) ==
  /\ req[p].kind = "gen" /\ req[p].pc = "save"
  /\ now >= clock
  /\ LET r == Step(req[p], <<"insert">>)
         documentId == generateUUID(nextDocId)
         title == <<"SOAP Note - ", r.clientName>>
         saved == saveDocument(documents,
                    [id |-> documentId, title |-> title, kind |-> "text",
                     content |-> r.fullText, userId |-> r.userId], now, fault)
     IN /\ documents' = saved.rows
        /\ nextDocId' = documentId
        /\ clock' = now
        /\ docLog' = LogSave(docLog, documentId, now, saved.ok)
        /\ req' = [req EXCEPT ![p] =
             IF saved.ok
               THEN Finish([r EXCEPT !.wrote = @ \cup {documentId}],
                           HttpOk(documentId, title, r.fullText))
               ELSE Finish(r, HttpError(500, saved.error))]
  /\ UNCHANGED <<clients, transcripts, revalidated, button>>

\* A host that enforces maxDuration ends the invocation once the request has
\* run longer, wherever the handler stands, and answers for it; a host that
\* does not enforce it lets the handler run on.
POSTMaxDuration(p) ==
  /\ req[p].kind = "gen" /\ req[p].pc \in {"stream", "save"}
  /\ req[p].elapsed > maxDuration
  /\ req' = [req EXCEPT ![p] =
       Finish(req[p], HttpError(504, <<"FUNCTION_INVOCATION_TIMEOUT">>))]
  /\ UNCHANGED <<clients, transcripts, documents, revalidated, nextDocId, clock, docLog, button>>

\* ------------------------------------------ app/actions/transcriptActions.ts
\* The values a submitted form may carry.
FormClientIds == UuidIds \cup {MalformedId}
FormDateTimes ==
  {[valid |-> TRUE, time |-> t] : t \in 1..MaxTime} \cup {[valid |-> FALSE, time |-> 0]}
FormContents == {<<>>, <<"x">>}

FieldErrors_contentUnchecked(clientId, sessionDateTime, content) ==
  (IF IsUuid(clientId) THEN {} ELSE {<<"clientId", "Invalid Client ID format.">>})
  \cup (IF sessionDateTime.valid THEN {}
        ELSE {<<"sessionDateTime",
                "Invalid date and time format. Please ensure you select both date and time.">>})

\* TranscriptSchema.safeParse(rawFormData): the field errors, empty on success
FieldErrors(clientId, sessionDateTime, content) ==
  (IF IsUuid(clientId) THEN {} ELSE {<<"clientId", "Invalid Client ID format.">>})
  \cup (IF sessionDateTime.valid THEN {}
        ELSE {<<"sessionDateTime",
                "Invalid date and time format. Please ensure you select both date and time.">>})
  \cup (IF Len(content) >= 1 THEN {}
        ELSE {<<"content", "Transcript content cannot be empty.">>})

NotAuthenticatedState ==
  FormState("Authentication required.", FALSE,
            {<<"authorization", "User not authenticated.">>})

AuthorizationFailedState ==
  FormState("Authorization failed.", FALSE,
            {<<"authorization", "Client not found or access denied.">>})

DuplicateSessionState ==
  FormState("A transcript for this client at this exact session date and time already exists.",
            FALSE,
            {<<"sessionDateTime", "A transcript for this exact date/time already exists.">>})

DatabaseErrorState ==
  FormState("Database Error: Failed to add transcript.", FALSE,
            {<<"general", "An unexpected error occurred while saving the transcript.">>})

SuccessState == FormState("Transcript added successfully.", TRUE, {})

\* the catch of addTranscriptAction
AddTranscriptCatch(error) ==
  IF Includes(error, UNIQUE_INDEX) THEN DuplicateSessionState ELSE DatabaseErrorState

Return(r, form) == [r EXCEPT !.pc = "done", !.form = form]

\* auth(), the authentication check and the server-side validation.
AddStart(p, user, clientId, sessionDateTime, content) ==
  /\ req[p].kind = "idle"
  /\ LET r == [req[p] EXCEPT !.kind = "add", !.userId = user,
                             !.clientId = [type |-> "string", val |-> clientId],
                             !.sessionDateTime = sessionDateTime, !.content = content]
         errors == FieldErrors(clientId, sessionDateTime, content)
     IN req' = [req EXCEPT ![p] =
          IF user = None THEN Return(r, NotAuthenticatedState)
          ELSE IF errors # {}
            THEN Return(r, FormState("Validation failed. Please check the fields.",
                                     FALSE, errors))
          ELSE [r EXCEPT !.pc = "authorize"]]
  /\ UNCHANGED <<clients, transcripts, documents, revalidated, nextDocId, clock, docLog, button>>

\* const client = await getClientById(clientId, userId); if (!client) return ...
AddAuthorize(p) ==
  /\ req[p].kind = "add" /\ req[p].pc = "authorize"
  /\ LET r == req[p]
         got == getClientById(clients, r.clientId.val, r.userId)
     IN req' = [req EXCEPT ![p] =
          IF ~got.ok THEN Return(r, AddTranscriptCatch(got.error))
          ELSE IF got.client = NoClient THEN Return(r, AuthorizationFailedState)
          ELSE [r EXCEPT !.pc = "insert", !.rowsAtCheck = Len(transcripts)]]
  /\ UNCHANGED <<clients, transcripts, documents, revalidated, nextDocId, clock, docLog, button>>

\* await addTranscript({...}); revalidatePath(`/clients/${clientId}`); the
\* success state, or the catch. dbError records what the database raised,
\* rowsAtCheck (set by AddAuthorize) how many rows the table had at the check.
AddInsert(p, fault) ==
  /\ req[p].kind = "add" /\ req[p].pc = "insert"
  /\ LET r == req[p]
         data == [clientId |-> r.clientId.val, sessionDateTime |-> r.sessionDateTime.time,
                  content |-> r.content]
         raised == IF fault THEN "storage"
                   ELSE IF UniqueViolation(transcripts, data) THEN "unique" ELSE "none"
         added == addTranscript(transcripts, data, fault)
     IN /\ transcripts' = added.rows
        /\ revalidated' = IF added.ok THEN revalidated \cup {r.clientId.val} ELSE revalidated
        /\ req' = [req EXCEPT ![p] =
             IF added.ok
               THEN Return([r EXCEPT !.inserted = Len(added.rows)], SuccessState)
               ELSE Return([r EXCEPT !.dbError = raised], AddTranscriptCatch(added.error))]
  /\ UNCHANGED <<clients, documents, nextDocId, clock, docLog, button>>

\* ------------------------------------------------------------ specification
ClientRows ==
  << [id |-> "c1", userId |-> "u1", name |-> "Jane Doe", createdAt |-> 0, updatedAt |-> 0],
     [id |-> "c2", userId |-> "u2", name |-> "John Roe", createdAt |-> 0, updatedAt |-> 0] >>

\* ------------------------------------------------- GenerateSoapNoteButton
\* A value of a JSON body field, with its JavaScript type.
Undefined == [type |-> "undefined", val |-> ""]
Str(v) == [type |-> "string", val |-> v]
Num(n) == [type |-> "number", val |-> n]

\* !v for the values above.
Falsy(v) == v.type = "undefined" \/ (v.type = "string" /\ v.val = "") \/ (v.type = "number" /\ v.val = "0")

\* const { setArtifact } = useArtifact(): the model keeps the last artifact the
\* button has handed to setArtifact, and this before it has handed one.
NotSet ==
  [documentId |-> Undefined, title |-> Undefined, kind |-> "none", content |-> Undefined,
   status |-> "none", isVisible |-> FALSE]

\* The bodies of a response: one that is no JSON, and JSON objects with the
\* fields the handler reads, each present or not.
Unparsable == [json |-> FALSE, documentId |-> Undefined, title |-> Undefined,
               initialContent |-> Undefined, error |-> Undefined]
OkBodies ==
  [json : {TRUE}, documentId : {Undefined, Str("1")},
   title : {Undefined, Str("SOAP Note - Jane Doe")},
   initialContent : {Undefined, Num("42"), Str(""), Str("S: calm")},
   error : {Undefined}]
ErrorBodies ==
  [json : {TRUE}, documentId : {Undefined}, title : {Undefined},
   initialContent : {Undefined}, error : {Undefined, Str("Unauthorized")}]

\* What the awaited fetch settles with: a rejection, or a response.
NetworkFailure == [rejected |-> TRUE, ok |-> FALSE, status |-> 0, body |-> Unparsable]
Responses ==
  [rejected : {FALSE}, ok : {TRUE}, status : {200}, body : OkBodies \cup {Unparsable}]
  \cup [rejected : {FALSE}, ok : {FALSE}, status : {500}, body : ErrorBodies \cup {Unparsable}]
Settlements == Responses \cup {NetworkFailure}

\* One run of handleGenerateSoapNote: its position, the response it got, the
\* toast it ended with, and whether it set the artifact.
Running == [pc |-> "fetch", response |-> NetworkFailure, toast |-> <<>>, opened |-> FALSE]

\* The component after its first render.
Mounted == [isGeneratingSoap |-> FALSE, artifact |-> NotSet, runs |-> <<>>]

Disabled_never(b) == FALSE

\* <Button disabled={isGeneratingSoap}>
Disabled(b) == b.isGeneratingSoap

\* catch (error): the toast with error.message.
ErrorToast(message) == <<"Failed to generate SOAP note: ">> \o message

\* The toast that ends the try or the catch, then
\* finally { setIsGeneratingSoap(false) }.
Finally(b, h, message) ==
  [b EXCEPT !.isGeneratingSoap = FALSE,
            !.runs[h].pc = "done", !.runs[h].toast = message]

\* onClick: setIsGeneratingSoap(true), the toast, and the fetch is sent.
Click ==
  /\ ~Disabled(button)
  /\ Len(button.runs) < MaxClicks
  /\ button' = [button EXCEPT !.isGeneratingSoap = TRUE, !.runs = Append(@, Running)]
  /\ UNCHANGED <<clients, transcripts, documents, revalidated, nextDocId, clock, docLog, req>>

\* await fetch(...) settles: a rejection goes to the catch, a response is kept.
FetchSettles(h, settled) ==
  /\ h \in DOMAIN button.runs /\ button.runs[h].pc = "fetch"
  /\ button' =
       IF settled.rejected
         THEN Finally(button, h, ErrorToast(<<"Failed to fetch">>))
         ELSE [button EXCEPT !.runs[h].pc = "json", !.runs[h].response = settled]
  /\ UNCHANGED <<clients, transcripts, documents, revalidated, nextDocId, clock, docLog, req>>

\* await response.json() settles. A body that does not parse leads to
\* response.text(); a parsed one to the checks, setArtifact and the toast, and
\* every throw to the catch.
JsonSettles(h) ==
  /\ h \in DOMAIN button.runs /\ button.runs[h].pc = "json"
  /\ LET response == button.runs[h].response
         body == response.body
     IN button' =
          IF ~body.json
            THEN [button EXCEPT !.runs[h].pc = "text"]
          ELSE IF ~response.ok
            THEN Finally(button, h,
                   ErrorToast(IF Falsy(body.error)
                                THEN <<"HTTP error! status: ">> \o Decimal(response.status)
                                ELSE <<body.error.val>>))
          ELSE IF Falsy(body.documentId) \/ body.initialContent.type # "string"
                  \/ Falsy(body.title)
            THEN Finally(button, h,
                   ErrorToast(<<"Invalid response from API. Missing required fields.">>))
          ELSE Finally(
                 [button EXCEPT
                    !.artifact = [documentId |-> body.documentId, title |-> body.title,
                                  kind |-> "text", content |-> body.initialContent,
                                  status |-> "idle", isVisible |-> TRUE],
                    !.runs[h].opened = TRUE],
                 h, <<"SOAP note generated successfully!">>)
  /\ UNCHANGED <<clients, transcripts, documents, revalidated, nextDocId, clock, docLog, req>>

\* await response.text() in the inner catch settles: with a rejection, the body
\* being read already, or with the text; both end in the outer catch.
TextSettles(h, rejects) ==
  /\ h \in DOMAIN button.runs /\ button.runs[h].pc = "text"
  /\ button' = Finally(button, h,
                  ErrorToast(IF rejects THEN <<"body stream already read">>
                             ELSE <<"HTTP error! status: ">>
                                    \o Decimal(button.runs[h].response.status)))
  /\ UNCHANGED <<clients, transcripts, documents, revalidated, nextDocId, clock, docLog, req>>

Settles ==
  \E h \in 1..MaxClicks :
    \/ \E settled \in Settlements : FetchSettles(h, settled)
    \/ JsonSettles(h)
    \/ \E rejects \in BOOLEAN : TextSettles(h, rejects)

NextButton == Click \/ Settles

Init ==
  /\ clients = ClientRows
  /\ transcripts = <<>>
  /\ documents = <<>>
  /\ revalidated = {}
  /\ nextDocId = 0
  /\ clock = 0
  /\ docLog = NoLog
  /\ button = Mounted
  /\ req = [p \in Procs |-> Idle]

Next ==
  \E p \in Procs :
    \/ \E user \in Sessions, body \in BodyClientIds : POSTStart(p, user, body)
    \/ POSTVerifyOwnership(p)
    \/ GenFetchClient(p)
    \/ GenFetchTranscripts(p)
    \/ GenCallLLM(p)
    \/ \E delta \in Fragments : GenStreamDelta(p, delta)
    \/ GenStreamWait(p)
    \/ GenStreamError(p)
    \/ GenStreamEnd(p)
    \/ POSTMaxDuration(p)
    \/ \E now \in 0..MaxClock, fault \in BOOLEAN : POSTSave(p, now, fault)
    \/ \E user \in Sessions, clientId \in FormClientIds,
          sessionDateTime \in FormDateTimes, content \in FormContents :
         AddStart(p, user, clientId, sessionDateTime, content)
    \/ AddAuthorize(p)
    \/ \E fault \in BOOLEAN : AddInsert(p, fault)

Spec == Init /\ [][Next]_vars

\* The component alone, fed every settlement of its fetch.
SpecButton == Init /\ [][NextButton]_vars

\* Every promise the handler awaits settles.
SpecButtonFair == SpecButton /\ WF_vars(Settles)

\* ------------------------------------------------ app/actions/clientActions.ts
\* The arguments the action may be invoked with: clientId and userId are
\* parameters of the action, bound by the edit form; name is a form field.
UpdateClientIds == UuidIds \cup {MalformedId, ""}
UpdateNames == {"", "Jane Roe"}

\* ClientUpdateSchema.safeParse(rawFormData): of the fields the model keeps the
\* name, the one that is required.
ClientFieldErrors(name) ==
  IF name = "" THEN {<<"name", "Name is required">>} ELSE {}

ClientUpdateFailedState ==
  FormState("Database Error: Failed to update client.", FALSE,
            {<<"general", "Database Error: Failed to update client.">>})

PermissionError == <<"Client not found or user does not have ", "permission", ".">>

\* the catch of updateClient: the permission error is rethrown, any other
\* error replaced by a generic one
updateClientCatch(error) ==
  IF Includes(error, "permission") THEN error
  ELSE <<"Database error during client update.">>

\* db.update(client).set({...updates, updatedAt: new Date()})
\*   .where(eq(client.id, id)).returning()
UpdateClientRows(cl, id, updates, now) ==
  [i \in 1..Len(cl) |->
     IF cl[i].id = id
       THEN [f \in DOMAIN cl[i] |->
               IF f = "updatedAt" THEN now
               ELSE IF f \in DOMAIN updates THEN updates[f] ELSE cl[i][f]]
       ELSE cl[i]]

\* The forms a caller may submit: the name field, and possibly a userId field
\* the edit form does not have.
UpdateForms == [name : UpdateNames, userId : {None, "u2"}]

RawFormData_allFields(form) ==
  IF form.userId = None THEN [name |-> form.name]
  ELSE [name |-> form.name, userId |-> form.userId]

\* const rawFormData = { name: formData.get("name"), ... }: the fields the
\* action names are read from the form, and no other.
RawFormData(form) == [name |-> form.name]

\* The action is invoked: it reads no session; user is the session of the
\* caller, which the action never looks at. The validated data are the raw
\* form data that ClientUpdateSchema has accepted.
UpdStart(p, user, clientId, userId, form) ==
  /\ req[p].kind = "idle"
  /\ LET raw == RawFormData(form)
         r == [req[p] EXCEPT !.kind = "upd", !.userId = user,
                             !.clientId = [type |-> "string", val |-> clientId],
                             !.argUserId = userId, !.name = form.name,
                             !.formUserId = form.userId]
         errors == ClientFieldErrors(raw.name)
     IN req' = [req EXCEPT ![p] =
          IF clientId = ""
            THEN Return(r, FormState("Client ID is missing.", FALSE,
                                     {<<"general", "Client ID is missing.">>}))
          ELSE IF errors # {}
            THEN Return(r, FormState("Validation failed. Please check the fields.",
                                     FALSE, errors))
          ELSE [r EXCEPT !.pc = "check", !.updates = raw]]
  /\ UNCHANGED <<clients, transcripts, documents, revalidated, nextDocId, clock, docLog, button>>

\* updateClient: const existingClient = await getClientById(id, userId); every
\* error thrown in updateClient ends in the catch of the action.
UpdCheck(p) ==
  /\ req[p].kind = "upd" /\ req[p].pc = "check"
  /\ LET r == req[p]
         got == getClientById(clients, r.clientId.val, r.argUserId)
         thrown == updateClientCatch(IF ~got.ok THEN got.error ELSE PermissionError)
     IN req' = [req EXCEPT ![p] =
          IF ~got.ok \/ got.client = NoClient
            THEN Return([r EXCEPT !.dbError = IF Includes(thrown, "permission")
                                                THEN "permission" ELSE "storage"],
                        ClientUpdateFailedState)
          ELSE [r EXCEPT !.pc = "update"]]
  /\ UNCHANGED <<clients, transcripts, documents, revalidated, nextDocId, clock, docLog, button>>

\* updateClient: the update by id, then the two revalidatePath calls and the
\* success state of the action; now is the value new Date() returns.
UpdWrite(p, now) ==
  /\ req[p].kind = "upd" /\ req[p].pc = "update"
  /\ now >= clock
  /\ LET r == req[p]
     IN /\ clients' = UpdateClientRows(clients, r.clientId.val, r.updates, now)
        /\ clock' = now
        /\ revalidated' = revalidated \cup {r.clientId.val, "/clients"}
        /\ req' = [req EXCEPT ![p] =
             Return([r EXCEPT !.wrote = {r.clientId.val}],
                    FormState(<<"Client \"", r.updates.name, "\" updated successfully.">>,
                              TRUE, {}))]
  /\ UNCHANGED <<transcripts, documents, nextDocId, docLog, button>>

NextClients ==
  \E p \in Procs :
    \/ \E user \in Sessions, clientId \in UpdateClientIds, userId \in Users,
          form \in UpdateForms :
         UpdStart(p, user, clientId, userId, form)
    \/ UpdCheck(p)
    \/ \E now \in 0..MaxClock : UpdWrite(p, now)

SpecClients == Init /\ [][NextClients]_vars

\* ------------------------------------------------ the document store on its own
\* The contents a caller of the store may save.
DocContents == {<<"a">>, <<"b">>}

\* A caller saves a snapshot under a document id handed out before; now is the
\* value new Date() returns. Storage faults are left to POSTSave.
DocSave(id, now, content) ==
  /\ SumCalls(docLog.calls, DocIds) < MaxSaves
  /\ now >= clock
  /\ LET saved == saveDocument(documents,
                    [id |-> id, title |-> <<"SOAP Note - ", "Jane Doe">>, kind |-> "text",
                     content |-> content, userId |-> "u1"], now, FALSE)
     IN /\ documents' = saved.rows
        /\ clock' = now
        /\ docLog' = LogSave(docLog, id, now, saved.ok)
  /\ UNCHANGED <<clients, transcripts, revalidated, nextDocId, req, button>>

\* A caller deletes the snapshots of a document later than a timestamp.
DocDelete(id, timestamp) ==
  /\ documents' = deleteDocumentsByIdAfterTimestamp(documents, id, timestamp)
  /\ docLog' = LogDelete(docLog, id, timestamp, Len(documents) - Len(documents'))
  /\ UNCHANGED <<clients, transcripts, revalidated, nextDocId, clock, req, button>>

NextDocs ==
  \/ \E id \in DocIds, now \in 0..MaxDocTime, content \in DocContents :
       DocSave(id, now, content)
  \/ \E id \in DocIds, timestamp \in 0..MaxDocTime : DocDelete(id, timestamp)

SpecDocs == Init /\ [][NextDocs]_vars

\* --------------------------------------------- context assembly on its own
\* Transcript lengths around the budget: a single transcript of
\* MAX_PROMPT_TRANSCRIPT_CHARS - 50 characters renders to exactly the budget.
CtxLengths == {1, MAX_PROMPT_TRANSCRIPT_CHARS - 50, MAX_PROMPT_TRANSCRIPT_CHARS - 49}

RECURSIVE Scripts(_, _)
\* The insertion orders: sequences of <<time, length>> with distinct times of T.
Scripts(T, lengths) ==
  {<<>>} \cup UNION {{<<e>> \o s : s \in Scripts(T \ {e[1]}, lengths)} : e \in T \X lengths}

RECURSIVE Build(_, _)
\* The table after the inserts of a script for client c1.
Build(tr, script) ==
  IF script = <<>> THEN tr
  ELSE Build(InsertTranscript(tr, [clientId |-> "c1", sessionDateTime |-> script[1][1],
                                   content |-> Content(script[1][2])], FALSE).rows,
             Tail(script))

\* Nothing, or a transcript of the other client, which no context of c1 may contain.
OtherClientRows ==
  {<<>>, InsertTranscript(<<>>, [clientId |-> "c2", sessionDateTime |-> MaxCtxTime,
                                 content |-> Content(2)], FALSE).rows}

\* A generation request of the owner of c1 that has passed the ownership check
\* and fetched the client.
CtxRequest ==
  [Idle EXCEPT !.kind = "gen", !.pc = "fetchTranscripts", !.userId = "u1",
               !.clientId = [type |-> "string", val |-> "c1"],
               !.clientName = "Jane Doe", !.steps = <<"ownership", "client">>]

InitCtx ==
  /\ clients = ClientRows
  /\ \E base \in OtherClientRows,
        script \in Scripts(1..MaxCtxTime, {1}) \cup Scripts(1..MaxTruncTime, CtxLengths) :
       transcripts = Build(base, script)
  /\ documents = <<>>
  /\ revalidated = {}
  /\ nextDocId = 0
  /\ clock = 0
  /\ docLog = NoLog
  /\ button = Mounted
  /\ req = [p \in Procs |-> IF p = 1 THEN CtxRequest ELSE Idle]

NextCtx == GenFetchTranscripts(1)

SpecCtx == InitCtx /\ [][NextCtx]_vars

\* ------------------------------------------------------------- properties
Done(p, kind) == req[p].kind = kind /\ req[p].pc = "done"

\* The rows of client whose id is the clientId of request p.
ClientRowsOf(p) ==
  {i \in 1..Len(clients) :
     req[p].clientId.type = "string" /\ clients[i].id = req[p].clientId.val}

Authenticated(p) == req[p].userId \in Users

\* Request p names a client that exists and belongs to another user.
OtherUsersClient(p) ==
  /\ Authenticated(p)
  /\ ClientRowsOf(p) # {}
  /\ \A i \in ClientRowsOf(p) : clients[i].userId # req[p].userId

\* Request p names a well-formed client id that no client has.
NoSuchClient(p) ==
  /\ Authenticated(p)
  /\ req[p].clientId.type = "string" /\ IsUuid(req[p].clientId.val)
  /\ ClientRowsOf(p) = {}

\* The snapshots in the table are exactly those the requests record as written.
WroteIsExact ==
  /\ \A i \in 1..Len(documents) : \E p \in Procs : documents[i].id \in req[p].wrote
  /\ \A p \in Procs : \A d \in req[p].wrote :
       Cardinality({i \in 1..Len(documents) : documents[i].id = d}) = 1

NotFound404 == HttpError(404, <<"Client not found or access denied.">>)

\* C1: a user who does not own a client gets no client from getClientById, and
\* that user's generation request for the client ends in the not-found response
\* with no upstream call made and no snapshot written.
C1_CrossOwnerDenied ==
  /\ \A i \in 1..Len(clients) : \A u \in Users \ {clients[i].userId} :
       LET got == getClientById(clients, clients[i].id, u)
       IN got.ok /\ got.client = NoClient
  /\ \A p \in Procs :
       (req[p].kind = "gen" /\ OtherUsersClient(p)) =>
          /\ req[p].pc \in {"verify", "done"}
          /\ req[p].calls = 0
          /\ req[p].wrote = {}
          /\ req[p].pc = "done" => req[p].http = NotFound404
  /\ WroteIsExact

C1_Witness ==
  \E p \in Procs :
    /\ Done(p, "gen") /\ OtherUsersClient(p)
    /\ req[p].userId = "u2" /\ req[p].clientId.val = "c1"
    /\ req[p].http.status = 404

\* Two requests that carry the same form fields apart from the client id.
SameOtherFields(p, q) ==
  req[p].sessionDateTime = req[q].sessionDateTime /\ req[p].content = req[q].content

\* C2: a request for a client id no client has and a request for a client of
\* another user, alike in everything else they submit, get the same response
\* (status and body), from the route and from addTranscriptAction alike.
C2_MissingAndForeignAlike ==
  \A p, q \in Procs :
    (NoSuchClient(p) /\ OtherUsersClient(q) /\ SameOtherFields(p, q)) =>
       /\ (Done(p, "gen") /\ Done(q, "gen")) => req[p].http = req[q].http
       /\ (Done(p, "add") /\ Done(q, "add")) => req[p].form = req[q].form

C2_Witness ==
  \E p, q \in Procs :
    /\ NoSuchClient(p) /\ OtherUsersClient(q)
    /\ Done(p, "gen") /\ Done(q, "gen")
    /\ req[p].clientId.val = "c3" /\ req[q].clientId.val = "c2" /\ req[q].userId = "u1"

\* C3 as stated: an unauthenticated caller and a caller who does not own the
\* client get the same status and message.
C3_SameForBothCauses ==
  \A p, q \in Procs :
    (req[p].userId = None /\ OtherUsersClient(q) /\ SameOtherFields(p, q)) =>
       /\ (Done(p, "gen") /\ Done(q, "gen")) => req[p].http = req[q].http
       /\ (Done(p, "add") /\ Done(q, "add")) => req[p].form = req[q].form

\* C3 as the code has it: a failed ownership check (no such client, or a
\* client of another user) always gets the generic not-found-or-denied result,
\* and a caller without a session always gets the distinct not-authenticated
\* result.
C3_OwnershipGenericAuthDistinct ==
  \A p \in Procs :
    /\ (Done(p, "gen") /\ (OtherUsersClient(p) \/ NoSuchClient(p))) =>
          req[p].http = NotFound404
    /\ (Done(p, "add") /\ req[p].sessionDateTime.valid /\ req[p].content # <<>>
          /\ (OtherUsersClient(p) \/ NoSuchClient(p))) =>
          req[p].form = AuthorizationFailedState
    /\ (Done(p, "gen") /\ req[p].userId = None) =>
          /\ req[p].http = HttpError(401, <<"Unauthorized">>)
          /\ req[p].http # NotFound404
    /\ (Done(p, "add") /\ req[p].userId = None) =>
          /\ req[p].form = NotAuthenticatedState
          /\ req[p].form # AuthorizationFailedState

C3_Witness ==
  \E p, q \in Procs :
    /\ Done(p, "add") /\ req[p].userId = None
    /\ Done(q, "add") /\ OtherUsersClient(q) /\ req[q].form = AuthorizationFailedState

EmptyOutput500 == HttpError(500, <<"LLM failed to generate SOAP note content.">>)

\* C4: a generation call whose stream ends with nothing accumulated fails with
\* the empty-output error; the route answers with that error and the request
\* writes no snapshot.
C4_EmptyStreamFails ==
  /\ \A p \in Procs :
       (req[p].kind = "gen" /\ req[p].stream = "end" /\ req[p].accumulatedText = <<>>) =>
          /\ req[p].pc = "done"
          /\ req[p].http = EmptyOutput500
          /\ req[p].wrote = {}
  /\ WroteIsExact

C4_Witness ==
  \E p \in Procs :
    /\ Done(p, "gen") /\ req[p].calls = 1
    /\ req[p].stream = "end" /\ req[p].accumulatedText = <<>>

\* C5: every snapshot the generation pipeline has written has non-empty
\* content, whatever fragments the stream emitted.
C5_NoEmptyDocument ==
  \A i \in 1..Len(documents) : documents[i].content # <<>>

\* C6: when the stream signals an error, after any number of fragments, the
\* request ends with an error response, has written no snapshot, and the text
\* accumulated so far is neither returned nor stored.
C6_StreamErrorDiscards ==
  /\ \A p \in Procs :
       (req[p].kind = "gen" /\ req[p].stream = "error") =>
          /\ req[p].pc = "done"
          /\ req[p].http.status = 500
          /\ req[p].http.initialContent = <<>> /\ req[p].http.documentId = 0
          /\ req[p].fullText = <<>>
          /\ req[p].wrote = {}
  /\ WroteIsExact

C6_Witness ==
  \E p \in Procs :
    /\ Done(p, "gen") /\ req[p].stream = "error"
    /\ Len(req[p].accumulatedText) = MaxFragments
    /\ req[p].http.status = 500

\* The rows of the transcript table for one (clientId, sessionDateTime) pair.
RowsOfPair(clientId, time) ==
  {i \in 1..Len(transcripts) :
     transcripts[i].clientId = clientId /\ transcripts[i].sessionDateTime = time}

\* C9: the transcript table never holds two rows for one (clientId,
\* sessionDateTime) pair; an insert that meets an existing row for its pair,
\* also one by a request that passed its ownership check before that row
\* existed, fails, inserts nothing, and leaves exactly one row for the pair.
C9_OneRowPerSession ==
  /\ \A i, j \in 1..Len(transcripts) :
       (transcripts[i].clientId = transcripts[j].clientId
          /\ transcripts[i].sessionDateTime = transcripts[j].sessionDateTime) => i = j
  /\ \A p \in Procs :
       (Done(p, "add") /\ req[p].dbError = "unique") =>
          /\ ~req[p].form.success
          /\ req[p].inserted = 0
          /\ Cardinality(RowsOfPair(req[p].clientId.val, req[p].sessionDateTime.time)) = 1
  /\ \A p \in Procs :
       (Done(p, "add") /\ req[p].form.success) =>
          /\ req[p].inserted \in RowsOfPair(req[p].clientId.val, req[p].sessionDateTime.time)
          /\ transcripts[req[p].inserted].content = req[p].content

\* Two ingestion requests for one pair had both passed the ownership check
\* before either inserted; one inserted, the other met the unique index.
C9_Witness ==
  \E p, q \in Procs :
    /\ p # q /\ Done(p, "add") /\ Done(q, "add")
    /\ req[p].clientId = req[q].clientId
    /\ req[p].sessionDateTime = req[q].sessionDateTime
    /\ req[p].form.success /\ req[q].dbError = "unique"
    /\ req[q].rowsAtCheck < req[p].inserted
    /\ req[p].rowsAtCheck < req[p].inserted

\* C10: an insert that violates the uniqueness constraint makes
\* addTranscriptAction return the duplicate-session result, and any other
\* storage failure the generic database-error result.
C10_DuplicateIsSpecific ==
  \A p \in Procs :
    /\ (Done(p, "add") /\ req[p].dbError = "unique") =>
          /\ req[p].form = DuplicateSessionState
          /\ req[p].form # DatabaseErrorState
    /\ (Done(p, "add") /\ req[p].dbError = "storage") =>
          req[p].form = DatabaseErrorState

\* Request p has assembled its context; the rendered text of what it selected.
Assembled(p) ==
  req[p].kind = "gen" /\ (req[p].pc \in {"callLLM", "stream", "save"} \/ req[p].calls > 0)

Rendered(p) == CombinedTranscriptContent(req[p].recent)

EndsWithMarker(s) ==
  /\ Len(s) >= Len(TRUNCATION_MARKER)
  /\ SubSeq(s, Len(s) - Len(TRUNCATION_MARKER) + 1, Len(s)) = TRUNCATION_MARKER

\* The section is the budget-sized prefix plus the marker when the rendered
\* text is over the budget, and the rendered text itself when it is not.
BudgetRule(p) ==
  IF Len(Rendered(p)) > MAX_PROMPT_TRANSCRIPT_CHARS
    THEN /\ Len(req[p].section) = MAX_PROMPT_TRANSCRIPT_CHARS + Len(TRUNCATION_MARKER)
         /\ SubSeq(req[p].section, 1, MAX_PROMPT_TRANSCRIPT_CHARS)
              = SubSeq(Rendered(p), 1, MAX_PROMPT_TRANSCRIPT_CHARS)
         /\ EndsWithMarker(req[p].section)
    ELSE /\ req[p].section = Rendered(p)
         /\ ~EndsWithMarker(req[p].section)

NeverSilentlyShorter(p) ==
  Len(req[p].section) < Len(Rendered(p)) => EndsWithMarker(req[p].section)

\* C7 as stated: for every set of selected transcripts, the empty one
\* included, the section follows the budget rule.
C7_BudgetRuleForEverySelection ==
  \A p \in Procs : Assembled(p) => (BudgetRule(p) /\ NeverSilentlyShorter(p))

\* C7 as the code has it: for every non-empty set of selected transcripts the
\* section is the first 8000 characters of the rendered text plus the
\* truncation marker when the rendered text is longer than 8000 characters,
\* and the rendered text unchanged, without the marker, when it is not; the
\* section is never shorter than the rendered text without carrying the marker.
C7_BudgetRuleForSelectedTranscripts ==
  \A p \in Procs :
    Assembled(p) =>
      /\ req[p].recent # <<>> => BudgetRule(p)
      /\ NeverSilentlyShorter(p)

C7_Witness ==
  \E p \in Procs :
    /\ Assembled(p) /\ Len(req[p].recent) = 2
    /\ Len(Rendered(p)) > MAX_PROMPT_TRANSCRIPT_CHARS
    /\ EndsWithMarker(req[p].section)

\* The rows of the transcript table that belong to the client of request p.
TranscriptsOf(p) ==
  {i \in 1..Len(transcripts) : transcripts[i].clientId = req[p].clientId.val}

\* The first position at which sub occurs in s, 0 when it does not.
IndexOf(s, sub) ==
  LET At == {i \in 1..(Len(s) - Len(sub) + 1) : SubSeq(s, i, i + Len(sub) - 1) = sub}
  IN IF At = {} THEN 0 ELSE CHOOSE i \in At : \A j \in At : i <= j

TranscriptHeading(k, time) ==
  <<"-", "-", "-", " ", "T", "r", "a", "n", "s", "c", "r", "i", "p", "t", " ">>
    \o Decimal(k) \o <<" ", "(">> \o Decimal(time) \o <<")", " ", "-", "-", "-">>

\* C8: the assembled context holds exactly the min(3, n) transcripts of the
\* client with the greatest sessionDateTime, most recent first, none of another
\* client, whatever the order of insertion; in the section Transcript k is the
\* k-th most recent.
C8_ThreeMostRecentDescending ==
  \A p \in Procs :
    Assembled(p) =>
      LET recent == req[p].recent
          n == Cardinality(TranscriptsOf(p))
          kept == {recent[k].id : k \in 1..Len(recent)}
      IN /\ Len(recent) = (IF n < 3 THEN n ELSE 3)
         /\ \A k \in 1..Len(recent) :
              \E i \in TranscriptsOf(p) : transcripts[i] = recent[k]
         /\ \A k \in 1..(Len(recent) - 1) :
              recent[k].sessionDateTime > recent[k + 1].sessionDateTime
         /\ \A i \in TranscriptsOf(p) :
              transcripts[i].id \notin kept =>
                \A k \in 1..Len(recent) :
                  transcripts[i].sessionDateTime < recent[k].sessionDateTime
         /\ Len(Rendered(p)) <= MAX_PROMPT_TRANSCRIPT_CHARS =>
              /\ \A k \in 1..Len(recent) :
                   IndexOf(req[p].section,
                           TranscriptHeading(k, recent[k].sessionDateTime)) > 0
              /\ \A k \in 1..(Len(recent) - 1) :
                   IndexOf(req[p].section, TranscriptHeading(k, recent[k].sessionDateTime))
                     < IndexOf(req[p].section,
                               TranscriptHeading(k + 1, recent[k + 1].sessionDateTime))

\* Four transcripts of the client inserted oldest first, and one of another
\* client: the three kept are the last three inserted, in reverse.
C8_Witness ==
  /\ Assembled(1)
  /\ Cardinality(TranscriptsOf(1)) = 4
  /\ Len(transcripts) = 5
  /\ \A i, j \in TranscriptsOf(1) :
       i < j => transcripts[i].sessionDateTime < transcripts[j].sessionDateTime
  /\ Len(req[1].recent) = 3
  /\ req[1].recent[1].sessionDateTime = 4

\* Request p carries form fields that pass TranscriptSchema.
ValidFields(p) ==
  /\ IsUuid(req[p].clientId.val)
  /\ req[p].sessionDateTime.valid
  /\ req[p].content # <<>>

\* The row of the client table that has the given id and owner, if any.
Owns(userId, clientId) ==
  \E i \in 1..Len(clients) : clients[i].id = clientId /\ clients[i].userId = userId

\* C11: an ingestion request reaches the insert only when getClientById found
\* a client with its clientId and its session user; a request, valid in its
\* fields, for a client that does not exist or belongs to another user never
\* reaches the insert, inserts nothing and returns the authorization failure;
\* every row of the transcript table was inserted by a request of the owner of
\* its client.
C11_InsertOnlyAfterOwnership ==
  /\ \A p \in Procs :
       (req[p].kind = "add" /\ (req[p].pc = "insert" \/ req[p].inserted > 0
                                  \/ req[p].dbError # "none")) =>
          Owns(req[p].userId, req[p].clientId.val)
  /\ \A p \in Procs :
       (req[p].kind = "add" /\ ValidFields(p)
          /\ (OtherUsersClient(p) \/ NoSuchClient(p))) =>
          /\ req[p].pc \in {"authorize", "done"}
          /\ req[p].inserted = 0 /\ req[p].dbError = "none"
          /\ req[p].pc = "done" => req[p].form = AuthorizationFailedState
  /\ \A i \in 1..Len(transcripts) :
       \E p \in Procs :
         /\ req[p].kind = "add" /\ req[p].inserted = i
         /\ transcripts[i].clientId = req[p].clientId.val
         /\ Owns(req[p].userId, transcripts[i].clientId)

\* One request was refused for another user's client after the owner's request
\* had inserted a transcript for it: the table still holds that row alone.
C11_Witness ==
  \E p, q \in Procs :
    /\ Done(p, "add") /\ ValidFields(p) /\ OtherUsersClient(p)
    /\ req[p].form = AuthorizationFailedState
    /\ Done(q, "add") /\ req[q].clientId = req[p].clientId /\ req[q].inserted = 1
    /\ Len(transcripts) = 1

\* C12: an ingestion request of a signed-in user with empty content, an
\* unparsable timestamp or a clientId that is no UUID ends, in the step that
\* validates, with the validation failure and an error for each offending field
\* and for no other; no request with such fields reaches the ownership check or
\* the insert, and no transcript row carries such fields.
C12_InvalidFieldsRejectedBeforeWrite ==
  /\ \A p \in Procs :
       (req[p].kind = "add" /\ ~ValidFields(p)) =>
          /\ req[p].pc = "done"
          /\ ~req[p].form.success
          /\ req[p].inserted = 0 /\ req[p].dbError = "none" /\ req[p].rowsAtCheck = 0
          /\ Authenticated(p) =>
               /\ req[p].form.message = "Validation failed. Please check the fields."
               /\ req[p].form.errors # {}
               /\ (\E e \in req[p].form.errors : e[1] = "content")
                    <=> req[p].content = <<>>
               /\ (\E e \in req[p].form.errors : e[1] = "sessionDateTime")
                    <=> ~req[p].sessionDateTime.valid
               /\ (\E e \in req[p].form.errors : e[1] = "clientId")
                    <=> ~IsUuid(req[p].clientId.val)
  /\ \A i \in 1..Len(transcripts) :
       /\ transcripts[i].content # <<>>
       /\ IsUuid(transcripts[i].clientId)
       /\ transcripts[i].sessionDateTime \in 1..MaxTime

\* Empty content alone, submitted by the owner for their own client, was
\* refused while another request had inserted a row.
C12_Witness ==
  \E p, q \in Procs :
    /\ Done(p, "add") /\ req[p].userId = "u1" /\ req[p].clientId.val = "c1"
    /\ req[p].sessionDateTime.valid /\ req[p].content = <<>>
    /\ req[p].form.errors = {<<"content", "Transcript content cannot be empty.">>}
    /\ Done(q, "add") /\ req[q].form.success /\ Len(transcripts) = 1

\* The steps of one generation request, in the order of the code.
StepOrder == <<"ownership", "client", "transcripts", "prompt", "generation", "insert">>

Begun(p, step) == \E k \in 1..Len(req[p].steps) : req[p].steps[k] = step

\* C13: the steps a generation request has begun are an initial part of
\* ownership check, client and transcript reads, prompt construction,
\* upstream generation, document insert, each begun once; a step after the
\* ownership check is begun only when the check found the client for the
\* session user; the upstream call is begun only with the client read and the
\* prompt section built from transcripts of that client read from the table;
\* the insert is begun only when the stream has ended with accepted output;
\* a request that failed began no step after the one that failed.
C13_StepsInOrder ==
  \A p \in Procs :
    req[p].kind = "gen" =>
      /\ Len(req[p].steps) <= Len(StepOrder)
      /\ req[p].steps = SubSeq(StepOrder, 1, Len(req[p].steps))
      /\ Begun(p, "client") => Owns(req[p].userId, req[p].clientId.val)
      /\ Begun(p, "transcripts") =>
           \E i \in ClientRowsOf(p) : clients[i].name = req[p].clientName
      /\ Begun(p, "generation") <=> req[p].calls > 0
      /\ Begun(p, "generation") =>
           /\ Begun(p, "prompt")
           /\ req[p].section = TranscriptSection(req[p].recent)
           /\ \A k \in 1..Len(req[p].recent) :
                \E i \in TranscriptsOf(p) : transcripts[i] = req[p].recent[k]
      /\ Begun(p, "insert") =>
           /\ req[p].stream = "end"
           /\ ~IsEmptyOutput(req[p].accumulatedText)
           /\ req[p].fullText = FullText(req[p].accumulatedText)
      /\ req[p].wrote # {} => Begun(p, "insert")
      /\ req[p].stream = "error" => ~Begun(p, "insert")
      /\ (req[p].pc = "done" /\ req[p].http.status \in {400, 401}) => req[p].steps = <<>>
      /\ (req[p].pc = "done" /\ req[p].http.status = 404) => req[p].steps = <<"ownership">>

\* One request went through all the steps and answered 200 while the other
\* stopped at the upstream generation, whose stream had signalled an error.
C13_Witness ==
  \E p, q \in Procs :
    /\ Done(p, "gen") /\ req[p].http.status = 200 /\ req[p].steps = StepOrder
    /\ Done(q, "gen") /\ req[q].stream = "error"
    /\ req[q].steps = SubSeq(StepOrder, 1, 5)

\* Request p has run longer than maxDuration with its stream not exhausted.
Overdue(p) == req[p].kind = "gen" /\ req[p].elapsed > maxDuration

\* C14: a generation request whose stream was not exhausted when the timeout
\* elapsed ends with an error response (the claim names the Timeout generation
\* error), returns none of the accumulated text and has written no snapshot.
C14_TimeoutAbortsAndDiscards ==
  \A p \in Procs :
    (Overdue(p) /\ req[p].pc = "done") =>
       /\ req[p].http.status # 200
       /\ req[p].http.initialContent = <<>>
       /\ req[p].wrote = {}

\* The rows of the document table that carry the given document id.
SnapshotsOf(id) == {i \in 1..Len(documents) : documents[i].id = id}

Succeeded(p) == Done(p, "gen") /\ req[p].http.status = 200

\* C15: every generation request that succeeded wrote exactly one snapshot,
\* under the document id it returned, and that snapshot holds the text of this
\* request; a request that did not succeed wrote none; no two requests, also
\* for the same client, wrote under the same document id, and the table holds
\* one row per successful request.
C15_OneSnapshotPerRequestOwnId ==
  /\ \A p \in Procs :
       req[p].kind = "gen" =>
         IF Succeeded(p)
           THEN /\ req[p].wrote = {req[p].http.documentId}
                /\ Cardinality(SnapshotsOf(req[p].http.documentId)) = 1
                /\ \A i \in SnapshotsOf(req[p].http.documentId) :
                     /\ documents[i].content = req[p].fullText
                     /\ documents[i].userId = req[p].userId
           ELSE req[p].wrote = {}
  /\ \A p, q \in Procs : p # q => req[p].wrote \cap req[q].wrote = {}
  /\ Len(documents) = Cardinality({p \in Procs : req[p].wrote # {}})

\* Two requests for the same client both succeeded, with different texts.
C15_Witness ==
  \E p, q \in Procs :
    /\ p # q /\ Succeeded(p) /\ Succeeded(q)
    /\ req[p].clientId = req[q].clientId
    /\ req[p].http.documentId # req[q].http.documentId
    /\ req[p].fullText # req[q].fullText
    /\ Len(documents) = 2

\* Messages of exceptions thrown by the libraries the pipeline calls: the
\* model provider's stream and the database driver.
LibraryMessages == {<<"upstream error">>, <<"connection terminated unexpectedly">>}

\* C18: no generation request that the handler answered with an error carries
\* in its response the message of an exception thrown by a library; the error
\* is one the pipeline has classified and worded.
C18_NoRawErrorToCaller ==
  \A p \in Procs :
    (Done(p, "gen") /\ req[p].http.status \in {400, 401, 404, 500}) =>
       req[p].http.error \notin LibraryMessages

\* C19: a generation request that answered 200 returned the id of exactly one
\* snapshot, written by this request, whose content is the returned
\* initialContent, whose title is the returned title, which is "SOAP Note - "
\* followed by the name of the client found for the session user, whose kind
\* is "text" and whose owner is the session user.
C19_ResponseMatchesSnapshot ==
  \A p \in Procs :
    Succeeded(p) =>
      /\ req[p].http.documentId \in req[p].wrote
      /\ Cardinality(SnapshotsOf(req[p].http.documentId)) = 1
      /\ \A i \in SnapshotsOf(req[p].http.documentId) :
           /\ documents[i].content = req[p].http.initialContent
           /\ documents[i].title = req[p].http.title
           /\ documents[i].kind = "text"
           /\ documents[i].userId = req[p].userId
      /\ \E c \in ClientRowsOf(p) :
           /\ clients[c].userId = req[p].userId
           /\ req[p].http.title = <<"SOAP Note - ", clients[c].name>>

C19_Witness ==
  \E p \in Procs :
    /\ Succeeded(p) /\ req[p].userId = "u2" /\ req[p].clientId.val = "c2"
    /\ req[p].http.title = <<"SOAP Note - ", "John Roe">>
    /\ req[p].http.initialContent = <<"a", "a">>
    /\ \E i \in 1..Len(documents) : documents[i].id = req[p].http.documentId

\* What getDocumentsById and getDocumentById return for an id, against the
\* rows the table holds for it: all of them, each once, in the given order of
\* createdAt, and the one with the greatest createdAt, or nothing.
ReadsAgree(id, n) ==
  LET all == getDocumentsById(documents, id)
      current == getDocumentById(documents, id)
  IN /\ Len(all) = n
     /\ Cardinality(SnapshotsOf(id)) = n
     /\ \A k \in 1..Len(all) : \E i \in SnapshotsOf(id) : documents[i] = all[k]
     /\ \A i \in SnapshotsOf(id) : \E k \in 1..Len(all) : all[k] = documents[i]
     /\ \A k \in 1..(Len(all) - 1) : all[k].createdAt <= all[k + 1].createdAt
     /\ IF n = 0 THEN current = NoDocument
        ELSE /\ \E i \in SnapshotsOf(id) : documents[i] = current
             /\ \A i \in SnapshotsOf(id) : documents[i].createdAt <= current.createdAt

\* C16 as stated: after N saveDocument calls with one document id, whatever
\* their createdAt values, and no delete, getDocumentsById returns N snapshots
\* in ascending order of createdAt and getDocumentById the one with the
\* greatest createdAt; an id with no snapshot yields no result.
C16_EveryAppendRetrievable ==
  \A id \in DocIds : ~docLog.deleted => ReadsAgree(id, docLog.calls[id])

\* C16 as the store has it: a saveDocument call whose createdAt coincides with
\* that of a snapshot of the same id is rejected and adds nothing; after the
\* calls that did insert, N of them with pairwise distinct createdAt, and no
\* delete, getDocumentsById returns those N snapshots in strictly ascending
\* order of createdAt and getDocumentById the one with the greatest createdAt;
\* an id with no snapshot yields no result.
C16_AppendsAtDistinctTimesRetrievable ==
  /\ \A id \in DocIds :
       /\ ~docLog.deleted => ReadsAgree(id, docLog.saved[id])
       /\ ReadsAgree(id, Cardinality(SnapshotsOf(id)))
       /\ \A i, j \in SnapshotsOf(id) :
            documents[i].createdAt = documents[j].createdAt => i = j
       /\ docLog.saved[id] <= docLog.calls[id]
  /\ docLog.last.op = "save" =>
       /\ \E i \in SnapshotsOf(docLog.last.id) : documents[i].createdAt = docLog.last.at
       /\ docLog.last.ok =>
            getDocumentById(documents, docLog.last.id).createdAt = docLog.last.at

\* Three appends to document 1, the second at the time of the first and so
\* rejected: two snapshots, the later one current; document 2 has none.
C16_Witness ==
  /\ ~docLog.deleted
  /\ docLog.calls[1] = 3 /\ docLog.saved[1] = 2
  /\ Len(getDocumentsById(documents, 1)) = 2
  /\ getDocumentById(documents, 1).createdAt = 2
  /\ getDocumentById(documents, 2) = NoDocument

\* C17 as stated: no step of the document store removes or changes a snapshot
\* that the table holds.
C17_NoSnapshotRemoved ==
  [][\A i \in 1..Len(documents) :
       \E j \in 1..Len(documents') : documents'[j] = documents[i]]_vars

\* C17 as the store has it: saveDocument leaves every snapshot in place,
\* unchanged, and adds at most one; the one operation that removes snapshots
\* is deleteDocumentsByIdAfterTimestamp(id, timestamp), and it removes exactly
\* the snapshots of that id whose createdAt is later than timestamp, leaving
\* every other snapshot in place, unchanged.
C17_OnlyDeleteAfterTimestampRemoves ==
  [][LET Gone(d) == \A j \in 1..Len(documents') : documents'[j] # d
         Deleting == docLog'.last.op = "delete" /\ docLog' # docLog
     IN /\ \A i \in 1..Len(documents) :
             Gone(documents[i]) <=>
               /\ Deleting
               /\ documents[i].id = docLog'.last.id
               /\ documents[i].createdAt > docLog'.last.at
        /\ ~Deleting =>
             /\ Len(documents') \in {Len(documents), Len(documents) + 1}
             /\ SubSeq(documents', 1, Len(documents)) = documents
        /\ Deleting => Len(documents') = Len(documents) - docLog'.last.removed]_vars

\* A delete removed a later snapshot of a document and left an earlier one of
\* the same document and a snapshot of the other document in place.
C17_Witness ==
  /\ docLog.last.op = "delete" /\ docLog.last.removed = 1
  /\ \E i \in SnapshotsOf(docLog.last.id) : documents[i].createdAt <= docLog.last.at
  /\ \E i \in 1..Len(documents) :
       documents[i].id # docLog.last.id /\ documents[i].createdAt > docLog.last.at

\* C20: a request on whose behalf updateClientAction has modified a client is
\* a request whose authenticated user owns that client.
C20_OnlyOwnerModifies ==
  \A p \in Procs :
    (Done(p, "upd") /\ req[p].form.success /\ req[p].wrote # {}) =>
       Owns(req[p].userId, req[p].clientId.val)

\* The fragments the stream of request p has delivered, put together in the
\* order of their arrival.
Concatenated(p) == Join(req[p].emitted, <<>>)

\* The snapshots written by request p.
WrittenBy(p) == {i \in 1..Len(documents) : documents[i].id \in req[p].wrote}

\* C21 as stated: the text a generation request returns and persists is
\* exactly the concatenation of the fragments its stream emitted, in their
\* order of arrival.
C21_ReturnsExactConcatenation ==
  \A p \in Procs :
    Succeeded(p) =>
      /\ req[p].http.initialContent = Concatenated(p)
      /\ \A i \in WrittenBy(p) : documents[i].content = Concatenated(p)

\* C21 as the code has it: the accumulated text is at every moment the
\* concatenation of the fragments emitted so far in their order of arrival;
\* nothing is returned or persisted before the stream is exhausted; the text
\* returned and persisted is the concatenation of all emitted fragments with
\* leading and trailing whitespace removed.
C21_ReturnsTrimmedConcatenation ==
  \A p \in Procs :
    req[p].kind = "gen" =>
      /\ req[p].accumulatedText = Concatenated(p)
      /\ (req[p].fullText # <<>> \/ req[p].wrote # {} \/ req[p].http.status = 200) =>
           req[p].stream = "end"
      /\ req[p].pc = "save" => req[p].fullText = Trim(Concatenated(p))
      /\ Succeeded(p) =>
           /\ req[p].http.initialContent = Trim(Concatenated(p))
           /\ WrittenBy(p) # {}
           /\ \A i \in WrittenBy(p) : documents[i].content = Trim(Concatenated(p))

\* The stream emitted "a" and then " ": the note returned and stored is "a".
C21_Witness ==
  \E p \in Procs :
    /\ Succeeded(p) /\ req[p].emitted = << <<"a">>, <<" ">> >>
    /\ req[p].http.initialContent = <<"a">>
    /\ \E i \in WrittenBy(p) : documents[i].content = <<"a">>

\* Request p has built its prompts and handed them to the upstream call.
Prompted(p) == req[p].kind = "gen" /\ req[p].calls > 0

C23_AtMostOneUpstreamCall ==
  \A p \in Procs :
    req[p].kind = "gen" =>
      /\ req[p].calls <= 1
      /\ ((req[p].stream = "end" /\ IsEmptyOutput(req[p].accumulatedText))
            \/ req[p].stream = "error") =>
           /\ req[p].pc = "done"
           /\ req[p].calls = 1
           /\ req[p].http.status = 500

\* One request failed on an empty stream, the other on a stream error after a
\* fragment; each had called upstream once.
C23_Witness ==
  \E p, q \in Procs :
    /\ Done(p, "gen") /\ req[p].stream = "end" /\ req[p].emitted = <<>> /\ req[p].calls = 1
    /\ Done(q, "gen") /\ req[q].stream = "error" /\ Len(req[q].emitted) = 1
    /\ req[q].calls = 1

\* C24: the transcript section of an assembled context is never blank; it is
\* the placeholder exactly when the client has no transcript, and the rendered
\* transcripts, truncated when over the budget, otherwise.
C24_SectionNeverBlank ==
  \A p \in Procs :
    Assembled(p) =>
      /\ Trim(req[p].section) # <<>>
      /\ req[p].section = NO_TRANSCRIPTS_PLACEHOLDER <=> TranscriptsOf(p) = {}
      /\ TranscriptsOf(p) = {} <=> req[p].recent = <<>>
      /\ TranscriptsOf(p) # {} => req[p].section = Truncate(Rendered(p))

\* The table holds a transcript of another client only: the placeholder.
C24_Witness ==
  /\ Assembled(1) /\ TranscriptsOf(1) = {} /\ Len(transcripts) = 1
  /\ req[1].section = NO_TRANSCRIPTS_PLACEHOLDER

\* A step taken by generation request p.
GenStep(p) == req'[p] # req[p] /\ req'[p].kind = "gen"

\* C25: no step of a generation request, whether the request goes on to
\* succeed or to fail, changes a client row or a transcript row, or changes or
\* removes a snapshot the table holds; a step adds at most one snapshot, and
\* the snapshot added carries a document id no snapshot had before.
C25_GenerationOnlyAddsItsSnapshot ==
  [][\A p \in Procs :
       GenStep(p) =>
         /\ clients' = clients
         /\ transcripts' = transcripts
         /\ revalidated' = revalidated
         /\ Len(documents') \in {Len(documents), Len(documents) + 1}
         /\ SubSeq(documents', 1, Len(documents)) = documents
         /\ Len(documents') = Len(documents) + 1 =>
              /\ req'[p].http.status = 200
              /\ \A i \in 1..Len(documents) :
                   documents[i].id # documents'[Len(documents')].id]_vars

\* The owner's request for a client was run twice with the same upstream
\* output: two snapshots with the same content under different document ids.
C25_Witness ==
  \E p, q \in Procs :
    /\ p # q /\ Succeeded(p) /\ Succeeded(q)
    /\ req[p].userId = req[q].userId /\ req[p].clientId = req[q].clientId
    /\ req[p].emitted = req[q].emitted
    /\ Len(documents) = 2
    /\ documents[1].content = documents[2].content
    /\ documents[1].title = documents[2].title
    /\ documents[1].id # documents[2].id
    /\ clients = ClientRows /\ transcripts = <<>>

\* Request p has touched nothing: no storage read, no upstream call, no write.
Untouched(p) ==
  /\ req[p].steps = <<>> /\ req[p].calls = 0 /\ req[p].wrote = {}
  /\ req[p].clientName = None /\ req[p].readAt = 0 /\ req[p].stream = "none"

\* C26: a generation request without a session has ended with status 401 and
\* the message "Unauthorized"; a request with a session whose body parses and
\* has a missing or non-string clientId has ended with status 400 and the
\* message "Missing or invalid clientId"; either was answered in its first
\* step, with no storage read, no upstream call and no document write made.
C26_EarlyRejections ==
  \A p \in Procs :
    req[p].kind = "gen" =>
      /\ req[p].userId = None =>
           /\ req[p].pc = "done" /\ Untouched(p)
           /\ req[p].http = HttpError(401, <<"Unauthorized">>)
      /\ (Authenticated(p) /\ req[p].clientId.type \in {"undefined", "number"}) =>
           /\ req[p].pc = "done" /\ Untouched(p)
           /\ req[p].http = HttpError(400, <<"Missing or invalid clientId">>)
      /\ req[p].http.status \in {400, 401} => Untouched(p)

\* One request had no session, the other a number for its clientId, while the
\* document table was empty.
C26_Witness ==
  \E p, q \in Procs :
    /\ Done(p, "gen") /\ req[p].userId = None /\ req[p].http.status = 401
    /\ Done(q, "gen") /\ req[q].userId = "u1" /\ req[q].clientId.type = "number"
    /\ req[q].http.status = 400
    /\ documents = <<>>

C28_SuccessIffInsertedAndRevalidated ==
  /\ \A p \in Procs :
       req[p].kind = "add" =>
         /\ req[p].form.success <=> req[p].inserted > 0
         /\ req[p].form.success => Done(p, "add") /\ req[p].form = SuccessState
         /\ req[p].inserted > 0 =>
              /\ req[p].inserted <= Len(transcripts)
              /\ transcripts[req[p].inserted].clientId = req[p].clientId.val
              /\ transcripts[req[p].inserted].content = req[p].content
  /\ Len(transcripts) = Cardinality({p \in Procs : req[p].kind = "add" /\ req[p].inserted > 0})
  /\ revalidated
       = {req[p].clientId.val : p \in {q \in Procs : req[q].kind = "add" /\ req[q].form.success}}

\* One call succeeded and revalidated its client's page; the other met a
\* storage error and left no trace.
C28_Witness ==
  \E p, q \in Procs :
    /\ Done(p, "add") /\ req[p].form.success /\ revalidated = {req[p].clientId.val}
    /\ Done(q, "add") /\ req[q].dbError = "storage" /\ ~req[q].form.success
    /\ req[q].clientId # req[p].clientId
    /\ Len(transcripts) = 1

\* The update request p cannot be carried out: its name is empty, or no client
\* has its clientId together with the userId it was called with.
Unacceptable(p) ==
  req[p].name = "" \/ ~Owns(req[p].argUserId, req[p].clientId.val)

\* C30: after every step of updateClientAction the table holds the same
\* clients, each with its original id, owner and createdAt; a call whose name
\* is empty or whose (clientId, userId) pair matches no client ends with
\* success = false, and no step of such a call changes a row; a step of any
\* call changes at most the row with the call's clientId.
C30_UpdateKeepsIdentity ==
  [][/\ Len(clients') = Len(ClientRows)
     /\ \A i \in 1..Len(ClientRows) :
          /\ clients'[i].id = ClientRows[i].id
          /\ clients'[i].userId = ClientRows[i].userId
          /\ clients'[i].createdAt = ClientRows[i].createdAt
     /\ \A p \in Procs :
          (req'[p] # req[p] /\ req'[p].kind = "upd") =>
             /\ \A i \in 1..Len(clients) :
                  clients[i].id # req'[p].clientId.val => clients'[i] = clients[i]
             /\ Unacceptable(p)' =>
                  /\ clients' = clients
                  /\ ~req'[p].form.success
                  /\ req'[p].wrote = {}]_vars

\* A call whose form also carried a userId field renamed the client, which
\* kept its owner; a call with an empty name was refused.
C30_Witness ==
  \E p, q \in Procs :
    /\ Done(p, "upd") /\ req[p].form.success /\ req[p].formUserId = "u2"
    /\ req[p].clientId.val = "c1"
    /\ clients[1].name = "Jane Roe" /\ clients[1].userId = "u1" /\ clients[1].updatedAt = 1
    /\ Done(q, "upd") /\ req[q].name = "" /\ ~req[q].form.success

\* The runs of the handler that have not reached the end of their finally.
Unhandled == {h \in DOMAIN button.runs : button.runs[h].pc # "done"}

\* The response of run h is ok and carries a documentId, a title and a string
\* initialContent.
Complete(h) ==
  LET response == button.runs[h].response
  IN /\ ~response.rejected /\ response.ok /\ response.body.json
     /\ ~Falsy(response.body.documentId)
     /\ ~Falsy(response.body.title)
     /\ response.body.initialContent.type = "string"

ButtonSafe ==
  /\ button.isGeneratingSoap = (Unhandled # {})
  /\ button.isGeneratingSoap => Disabled(button)
  /\ Cardinality(Unhandled) <= 1
  /\ \A h \in DOMAIN button.runs :
       /\ button.runs[h].opened => Complete(h)
       /\ button.runs[h].pc = "done" =>
            (button.runs[h].opened
               <=> button.runs[h].toast = <<"SOAP note generated successfully!">>)
  /\ button.artifact.isVisible =>
       \E h \in DOMAIN button.runs :
         /\ button.runs[h].opened
         /\ button.artifact.content = button.runs[h].response.body.initialContent
         /\ button.artifact.documentId = button.runs[h].response.body.documentId

\* C29: isGeneratingSoap is true exactly while a run of the handler has not
\* finished, whichever way it finishes, and a button in that state is enabled
\* again later; at most one run, hence one request, is unfinished at a time;
\* the artifact is set only by a run whose response was ok and carried a
\* documentId, a title and a string initialContent.
C29_BusyUntilHandled ==
  /\ []ButtonSafe
  /\ (button.isGeneratingSoap ~> ~button.isGeneratingSoap)

\* The first click ended with the artifact shown, the second with an error
\* toast for a body that was no JSON, and the button is enabled again.
C29_Witness ==
  /\ Len(button.runs) = 2 /\ Unhandled = {}
  /\ button.runs[1].opened /\ button.artifact.isVisible
  /\ button.runs[2].response.body = Unparsable /\ ~button.runs[2].response.rejected
  /\ ~button.runs[2].opened
  /\ ~Disabled(button)

====
